---- MODULE Spec2Model ----
(***************************************************************************)
(* Cart / order consistency flow of the marketplace backend                *)
(* (server/routes.ts, server/storage.ts, shared schema).                   *)
(*                                                                         *)
(* The tables of the relational store are sets of rows.  Every await of    *)
(* POST /api/orders and POST /api/cart on the storage layer is one step of *)
(* the model, so that the requests the server handles concurrently         *)
(* interleave exactly at their database statements.  The handlers of a     *)
(* single write (PUT and DELETE of a cart item or a product, whose         *)
(* preceding read checks only the product's existence and sellerId) are    *)
(* one action each.                                                        *)
(*                                                                         *)
(* Spec is the checkout flow: orders placed against a stocked catalog and  *)
(* filled carts while the seller edits and deletes products and the store  *)
(* may fail a statement.  SpecCart is the cart: adds, quantity updates and *)
(* removals of every principal, interleaved.                               *)
(*                                                                         *)
(* decimal(10,2) values (prices, totals) are counted in whole currency     *)
(* units: parseFloat, the float sum of at most MaxLines products and the   *)
(* rounding of the column to two places are exact on them.                 *)
(***************************************************************************)
EXTENDS Integers, Sequences, FiniteSets, TLC

\* ------------------------------------------------------------------ bounds
MaxProducts == 2      \* product rows ever created
MaxPrice    == 2      \* catalog prices are 1..MaxPrice
MaxStock    == 1      \* stock levels are 0..MaxStock
MaxQty      == 2      \* quantities of a request are at most MaxQty
MaxLines    == 2      \* lines of one order request
MaxOrderReq == 1      \* POST /api/orders requests
MaxAddReq   == 2      \* POST /api/cart requests
MaxFaults   == 1      \* statements the store fails
MaxProjects == 2      \* project rows ever created
MaxMilestones == 2    \* milestone rows ever created
MaxImages   == 1      \* progress image rows ever created
MaxCheckouts == 2     \* POST /api/orders requests of the repeated checkout
MaxListed   == 40     \* milestones of the project the dashboard shows

\* ------------------------------------------------------------- principals
\* The authentication provider is external: a request carries a principal
\* (req.user) or none.
Principals == {"alice", "sam"}        \* the callers of the checkout and the cart
NoUser     == "anonymous"
Role       == [alice |-> "buyer", sam |-> "seller", sue |-> "seller",
               cleo |-> "client", carl |-> "client", ada |-> "admin"]
Accounts   == DOMAIN Role             \* every principal a session can carry

\* the check gone wrong: a request without a session passes
isAuthenticatedAlways(u) == TRUE

\* req.isAuthenticated()
isAuthenticated(u) == u \in Accounts

\* requireRole: the principal's role is in the list
RoleAllowed(u, roles) == u \in Accounts /\ Role[u] \in roles

\* ------------------------------------------------------------ value sets
NoProductId == 0                       \* an id no product row ever carries
ProductIds  == 1..MaxProducts
Prices      == 1..MaxPrice
Stocks      == 0..MaxStock
OrderQtys   == 1..MaxQty
CartQtys    == (0 - 1)..MaxQty         \* the insert schema accepts any integer
Addresses   == {"", "12 Ring Road"}
ClientPrice == 0                       \* a price field sent by the caller

VARIABLES
    products,      \* table products
    nextProductId, \* next generated product id
    cartItems,     \* table cart_items
    nextCartId,    \* next generated cart item id
    orders,        \* table orders
    orderItems,    \* table order_items
    nextOrderId,   \* next generated order id
    nextItemId,    \* next generated order item id
    addReq,        \* POST /api/cart requests: position and locals
    orderReq,      \* POST /api/orders requests: position and locals
    faults,        \* statements the store has failed so far
    addLog,        \* history of each (userId, productId) pair of the cart
    projects,      \* table projects
    nextProjectId, \* next generated project id
    milestones,    \* table milestones
    nextMilestoneId, \* next generated milestone id
    progressImages, \* table progress_images
    nextImageId,   \* next generated progress image id
    reply,         \* the last response of a handler that answers in one step
    selectedProject, \* dashboard: id of the selected project, 0 for null
    milestonesData \* dashboard: data of the milestones query

dashVars == <<selectedProject, milestonesData>>

projTbl  == <<projects, nextProjectId, milestones, nextMilestoneId,
              progressImages, nextImageId>>

\* what the handlers of the shop leave alone
otherVars == <<dashVars, reply, projTbl>>

vars == <<products, nextProductId, cartItems, nextCartId, orders, orderItems,
          nextOrderId, nextItemId, addReq, orderReq, faults, addLog, projTbl,
          reply, dashVars>>

dbVars   == <<products, nextProductId, cartItems, nextCartId, orders,
              orderItems, nextOrderId, nextItemId, projTbl>>
orderTbl == <<orders, orderItems, nextOrderId, nextItemId>>
prodTbl  == <<products, nextProductId>>
shopVars == <<prodTbl, cartItems, nextCartId, orderTbl, addReq, orderReq,
              faults, addLog>>

\* --------------------------------------------------------------- helpers
RECURSIVE SumSeq(_)
SumSeq(s) == IF s = <<>> THEN 0 ELSE Head(s) + SumSeq(Tail(s))

\* sequences over S of length 0..n
SeqsUpTo(S, n) == UNION {[1..k -> S] : k \in 0..n}

\* the product ids a caller can name are the generated ones; the id of a
\* deleted product no longer resolves
KnownRefs == {p \in ProductIds : p < nextProductId}

\* --------------------------------------------------------------- products
NoProduct == [id |-> NoProductId, name |-> <<>>, category |-> <<>>, price |-> 0,
              stock |-> 0, sellerId |-> NoUser, isActive |-> FALSE,
              createdAt |-> 0]

\* storage.getProduct: the row, or undefined
getProduct(id) ==
    IF \E p \in products : p.id = id
    THEN CHOOSE p \in products : p.id = id
    ELSE NoProduct

\* the rule gone wrong: every caller the role list admits may edit
MayEditAnyProduct(u, product) == TRUE

\* the ownership rule of PUT and DELETE /api/products/:id
MayEditProduct(u, product) ==
    Role[u] = "admin" \/ product.sellerId = u

\* requireAuth, then requireRole(roles): the status the middleware answers
\* with, or 0 when the request reaches the handler
Gate(u, roles) ==
    IF ~isAuthenticated(u) THEN 401
    ELSE IF ~RoleAllowed(u, roles) THEN 403
    ELSE 0

\* the status of a request guarded by requireAuth only
AuthGate(u) == IF ~isAuthenticated(u) THEN 401 ELSE 0

\* the response of a handler that answers in one step
Answer(op, u, status) == [op |-> op, user |-> u, status |-> status]

\* storage.createProduct of the validated body: the body's sellerId is
\* overridden by the principal, id and createdAt are generated, a missing
\* isActive takes the column default.  createdAt is the insertion count: no
\* two rows carry the same timestamp.
NewProduct(u, body) ==
    [id        |-> nextProductId,
     name      |-> body.name,
     category  |-> body.category,
     price     |-> body.price,
     stock     |-> IF "stock" \in DOMAIN body THEN body.stock ELSE 0,
     sellerId  |-> u,
     isActive  |-> IF "isActive" \in DOMAIN body THEN body.isActive ELSE TRUE,
     createdAt |-> nextProductId]

\* insertProductSchema.parse: the columns without default must be there
\* (description, a text no handler reads, is left out of the rows)
ValidProduct(body) == {"name", "category", "price"} \subseteq DOMAIN body

\* POST /api/products
CreateProduct(u, body) ==
    LET status == IF Gate(u, {"seller", "admin"}) # 0
                  THEN Gate(u, {"seller", "admin"})
                  ELSE IF ~ValidProduct(body) THEN 400
                  ELSE 201
    IN
    /\ status = 201 => nextProductId <= MaxProducts
    /\ IF status = 201
       THEN /\ products' = products \cup {NewProduct(u, body)}
            /\ nextProductId' = nextProductId + 1
       ELSE UNCHANGED prodTbl
    /\ reply' = Answer("POST /api/products", u, status)
    /\ UNCHANGED <<dashVars, projTbl, cartItems, nextCartId, orderTbl, addReq, orderReq,
                   faults, addLog>>

\* storage.updateProduct: UPDATE products SET ... WHERE id = id
updateProduct(id, data) ==
    {IF p.id = id THEN [f \in DOMAIN p |-> IF f \in DOMAIN data THEN data[f] ELSE p[f]]
                  ELSE p : p \in products}

\* PUT /api/products/:id
UpdateProduct(u, id, data) ==
    /\ LET product == getProduct(id) IN
       IF /\ isAuthenticated(u)
          /\ RoleAllowed(u, {"seller", "admin"})
          /\ product # NoProduct
          /\ MayEditProduct(u, product)
       THEN products' = updateProduct(id, data)
       ELSE UNCHANGED products
    /\ UNCHANGED <<otherVars, nextProductId, cartItems, nextCartId, orderTbl, addReq,
                   orderReq, faults, addLog>>

\* storage.deleteProduct: DELETE FROM products WHERE id = id
deleteProduct(id) == {p \in products : p.id # id}

\* the deletion gone wrong: the items ordered of the product go with it
DeleteProductCascade(u, id) ==
    /\ LET product == getProduct(id) IN
       IF /\ isAuthenticated(u)
          /\ RoleAllowed(u, {"seller", "admin"})
          /\ product # NoProduct
          /\ MayEditProduct(u, product)
       THEN /\ products' = deleteProduct(id)
            /\ orderItems' = {it \in orderItems : it.productId # id}
       ELSE UNCHANGED <<products, orderItems>>
    /\ UNCHANGED <<otherVars, nextProductId, cartItems, nextCartId, orders,
                   nextOrderId, nextItemId, addReq, orderReq, faults, addLog>>

\* DELETE /api/products/:id
DeleteProduct(u, id) ==
    /\ LET product == getProduct(id) IN
       IF /\ isAuthenticated(u)
          /\ RoleAllowed(u, {"seller", "admin"})
          /\ product # NoProduct
          /\ MayEditProduct(u, product)
       THEN products' = deleteProduct(id)
       ELSE UNCHANGED products
    /\ UNCHANGED <<otherVars, nextProductId, cartItems, nextCartId, orderTbl, addReq,
                   orderReq, faults, addLog>>

\* the status PUT and DELETE /api/products/:id answer with: the middleware,
\* the 404 of an unknown product, the 403 of the ownership rule, or ok
ProductEditStatus(u, id, ok) ==
    IF Gate(u, {"seller", "admin"}) # 0 THEN Gate(u, {"seller", "admin"})
    ELSE IF getProduct(id) = NoProduct THEN 404
    ELSE IF ~MayEditProduct(u, getProduct(id)) THEN 403
    ELSE ok

\* the UPDATE sets the primary key to the id of another row: it fails
KeyTaken(id, data) ==
    /\ "id" \in DOMAIN data
    /\ data.id # id
    /\ \E p \in products : p.id = data.id

\* whether the UPDATE of storage.updateProduct throws.  The body reaches
\* .set() unvalidated; how the driver encodes a createdAt that is not a
\* Date is the library's business: the statement may throw or write it.
UpdateThrows(id, data) ==
    IF KeyTaken(id, data) THEN {TRUE}
    ELSE IF "createdAt" \in DOMAIN data THEN BOOLEAN
    ELSE {FALSE}

\* PUT /api/products/:id with its response: the catch block answers 400
PutProductById(u, id, data) ==
    \E thrown \in UpdateThrows(id, data) :
        LET status == ProductEditStatus(u, id, IF thrown THEN 400 ELSE 200) IN
        /\ products' = IF status = 200 THEN updateProduct(id, data)
                       ELSE products
        /\ reply' = Answer("PUT /api/products/:id", u, status)
        /\ UNCHANGED <<dashVars, projTbl, nextProductId, cartItems, nextCartId,
                       orderTbl, addReq, orderReq, faults, addLog>>

\* DELETE /api/products/:id with its response
DeleteProductById(u, id) ==
    LET status == ProductEditStatus(u, id, 204) IN
    /\ products' = IF status = 204 THEN deleteProduct(id) ELSE products
    /\ reply' = Answer("DELETE /api/products/:id", u, status)
    /\ UNCHANGED <<dashVars, projTbl, nextProductId, cartItems, nextCartId, orderTbl,
                   addReq, orderReq, faults, addLog>>

\* ---------------------------------------------------------------- catalog
\* Texts (names, categories, query parameters) are sequences of characters.
\* String.prototype.trim: the white space at both ends is removed
RECURSIVE trimStart(_)
trimStart(s) == IF s # <<>> /\ Head(s) = " " THEN trimStart(Tail(s)) ELSE s

RECURSIVE trimEnd(_)
trimEnd(s) ==
    IF s # <<>> /\ s[Len(s)] = " " THEN trimEnd(SubSeq(s, 1, Len(s) - 1)) ELSE s

trim(s) == trimEnd(trimStart(s))

\* a string in a condition: the empty string and undefined are falsy
Truthy(s) == s # <<>>

\* the filter gone wrong: a parameter of white space only is applied
ProvidedUntrimmed(s) == Truthy(s)

\* `query && query.trim()`: the parameter is given and not blank
Provided(s) == Truthy(s) /\ Truthy(trim(s))

\* like(products.name, `%${query}%`): query occurs in name
Like(name, query) ==
    \E i \in 0..(Len(name) - Len(query)) :
        SubSeq(name, i + 1, i + Len(query)) = query

\* orderBy(desc(products.createdAt))
RECURSIVE orderByCreatedAtDesc(_)
orderByCreatedAtDesc(rows) ==
    IF rows = {} THEN <<>>
    ELSE LET newest == CHOOSE p \in rows :
                           \A q \in rows : q.createdAt <= p.createdAt
         IN <<newest>> \o orderByCreatedAtDesc(rows \ {newest})

\* the listing gone wrong: inactive products are listed too
getAllProductsAnyState == orderByCreatedAtDesc(products)

\* storage.getAllProducts
getAllProducts ==
    orderByCreatedAtDesc({p \in products : p.isActive = TRUE})

\* storage.searchProducts
searchProducts(query, category) ==
    orderByCreatedAtDesc(
        {p \in products :
            /\ p.isActive = TRUE
            /\ Provided(query) => Like(p.name, query)
            /\ Provided(category) => p.category = category})

\* the body of GET /api/products?search=&category= (a missing parameter and
\* an empty one are both falsy, and searchProducts treats them alike)
ProductListing(search, category) ==
    IF Truthy(search) \/ Truthy(category)
    THEN searchProducts(search, category)
    ELSE getAllProducts

\* GET /api/products: no middleware
GetProducts(u, search, category) ==
    /\ reply' = Answer("GET /api/products", u, 200)
    /\ UNCHANGED <<dashVars, dbVars, addReq, orderReq, faults, addLog>>

\* ------------------------------------------------------------------- cart
NoRow == [id |-> 0, userId |-> NoUser, productId |-> NoProductId, quantity |-> 0]

\* rows of one (userId, productId) pair
CartRows(u, pid) == {c \in cartItems : c.userId = u /\ c.productId = pid}

\* storage.getCartItems
getCartItems(u) == {c \in cartItems : c.userId = u}

IdleAdd == [pc |-> "idle", user |-> NoUser, productId |-> NoProductId,
            hasQuantity |-> FALSE, quantity |-> 0, existingItem |-> NoRow,
            response |-> 0]

\* a request that has answered keeps its status only
DoneAdd(status) == [IdleAdd EXCEPT !.pc = "done", !.response = status]

\* an add for the pair has read the cart and not written yet
AddInFlight(u, pid) ==
    \E a \in DOMAIN addReq :
        /\ addReq[a].pc = "write"
        /\ addReq[a].user = u
        /\ addReq[a].productId = pid

\* the pair's history is no longer a sequence of adds run one after another
Disturb(log, pairs) ==
    [k \in DOMAIN log |-> IF k \in pairs THEN [log[k] EXCEPT !.serial = FALSE]
                                         ELSE log[k]]

\* POST /api/cart, up to the SELECT of storage.addToCart.  The body's userId
\* is overridden by the principal; quantity is optional in the insert schema.
AddToCartSelect(a, u, pid, hasQuantity, quantity) ==
    /\ addReq[a].pc = "idle"
    /\ \A b \in DOMAIN addReq : b < a => addReq[b].pc # "idle"
    /\ pid \in KnownRefs
    /\ IF ~isAuthenticated(u)
       THEN UNCHANGED <<addReq, addLog>>
       ELSE /\ \E existing \in (IF CartRows(u, pid) = {} THEN {NoRow}
                                                       ELSE CartRows(u, pid)) :
                 addReq' = [addReq EXCEPT ![a] =
                     [pc |-> "write", user |-> u, productId |-> pid,
                      hasQuantity |-> hasQuantity,
                      quantity |-> IF hasQuantity THEN quantity ELSE 0,
                      existingItem |-> existing, response |-> 0]]
            /\ addLog' = IF AddInFlight(u, pid)
                         THEN Disturb(addLog, {<<u, pid>>})
                         ELSE addLog
    /\ UNCHANGED <<dashVars, reply, dbVars, orderReq, faults>>

\* the merge gone wrong: the new quantity replaces the stored one
ReplacedQuantity(existing, quantity) == quantity

\* the quantity storage.addToCart writes over an existing row
MergedQuantity(existing, quantity) == existing.quantity + quantity

\* the quantity a new row gets: the given one, or the column default
InsertedQuantity(hasQuantity, quantity) == IF hasQuantity THEN quantity ELSE 1

\* storage.addToCart after its SELECT, and the response of POST /api/cart
AddToCartWrite(a) ==
    LET r   == addReq[a]
        key == <<r.user, r.productId>>
    IN
    /\ r.pc = "write"
    /\ IF r.existingItem # NoRow
       THEN IF ~r.hasQuantity
            THEN \* existingItem.quantity + undefined is NaN: the UPDATE fails
                 /\ UNCHANGED <<cartItems, nextCartId, addLog>>
                 /\ addReq' = [addReq EXCEPT ![a] = DoneAdd(400)]
            ELSE /\ cartItems' =
                      {IF c.id = r.existingItem.id
                       THEN [c EXCEPT !.quantity =
                                MergedQuantity(r.existingItem, r.quantity)]
                       ELSE c : c \in cartItems}
                 /\ UNCHANGED nextCartId
                 /\ addLog' = [addLog EXCEPT ![key].sum = @ + r.quantity,
                                             ![key].n = @ + 1]
                 /\ addReq' = [addReq EXCEPT ![a] = DoneAdd(201)]
       ELSE /\ cartItems' = cartItems \cup
                 {[id |-> nextCartId, userId |-> r.user, productId |-> r.productId,
                   quantity |-> InsertedQuantity(r.hasQuantity, r.quantity)]}
            /\ nextCartId' = nextCartId + 1
            /\ addLog' = [addLog EXCEPT
                   ![key].sum = @ + InsertedQuantity(r.hasQuantity, r.quantity),
                   ![key].n = @ + 1]
            /\ addReq' = [addReq EXCEPT ![a] = DoneAdd(201)]
    /\ UNCHANGED <<otherVars, prodTbl, orderTbl, orderReq, faults>>

\* the (userId, productId) pairs of the rows with the given id
PairsOfId(id) == {<<c.userId, c.productId>> : c \in {d \in cartItems : d.id = id}}

\* storage.updateCartItem: UPDATE cart_items SET quantity WHERE id = id
updateCartItem(id, quantity) ==
    {IF c.id = id THEN [c EXCEPT !.quantity = quantity] ELSE c : c \in cartItems}

\* PUT /api/cart/:id
UpdateCartItem(u, id, quantity) ==
    /\ IF isAuthenticated(u)
       THEN /\ cartItems' = updateCartItem(id, quantity)
            /\ addLog' = Disturb(addLog, PairsOfId(id))
       ELSE UNCHANGED <<cartItems, addLog>>
    /\ UNCHANGED <<otherVars, prodTbl, nextCartId, orderTbl, addReq, orderReq, faults>>

\* storage.removeFromCart: DELETE FROM cart_items WHERE id = id
removeFromCart(id) == {c \in cartItems : c.id # id}

\* DELETE /api/cart/:id
RemoveFromCart(u, id) ==
    /\ IF isAuthenticated(u)
       THEN /\ cartItems' = removeFromCart(id)
            /\ addLog' = Disturb(addLog, PairsOfId(id))
       ELSE UNCHANGED <<cartItems, addLog>>
    /\ UNCHANGED <<otherVars, prodTbl, nextCartId, orderTbl, addReq, orderReq, faults>>

\* the clearing gone wrong: only one row of the user is deleted
clearCartOneRow(u) ==
    IF getCartItems(u) = {} THEN cartItems
    ELSE cartItems \ {CHOOSE c \in getCartItems(u) : TRUE}

\* storage.clearCart: DELETE FROM cart_items WHERE user_id = userId
clearCart(u) == {c \in cartItems : c.userId # u}

\* ----------------------------------------------------------------- orders
\* the lines a caller can send: {productId, quantity}
OrderLines ==
    {[productId |-> p, quantity |-> q] : p \in KnownRefs, q \in OrderQtys}

\* the same lines, each with a price field of the caller's choosing
Priced(items) ==
    [k \in DOMAIN items |->
        [productId |-> items[k].productId, quantity |-> items[k].quantity,
         price |-> ClientPrice]]

\* the item lists of a request body
OrderBodies ==
    SeqsUpTo(OrderLines, MaxLines)
    \cup {Priced(items) : items \in SeqsUpTo(OrderLines, MaxLines)}

IdleOrder == [pc |-> "idle", user |-> NoUser, shippingAddress |-> "",
              items |-> <<>>, i |-> 0, total |-> 0, itemsWithPrices |-> <<>>,
              txOrders |-> {}, txItems |-> {}, order |-> 0, response |-> 0,
              unresolved |-> FALSE]

\* parseFloat(product.price) * item.quantity
LineTotal(product, item) == product.price * item.quantity

\* { ...item, price: product.price }
WithPrice(item, product) ==
    [f \in DOMAIN item \cup {"price"} |->
        IF f = "price" THEN product.price ELSE item[f]]

\* the lookup gone wrong: a missing product is taken for a free one
UnresolvedNever(product) == FALSE

\* `!product` in the pricing loop, `product!.price` in the snapshot
Unresolved(product) == product = NoProduct

\* the pairs of one user's cart
PairsOf(u) == {<<u, p>> : p \in 0..MaxProducts}

\* the reply that ends a handler
Reply(r, status) ==
    [orderReq EXCEPT ![r].pc = "done", ![r].response = status,
                     ![r].txOrders = {}, ![r].txItems = {}]

\* POST /api/orders: requireAuth and the handler up to its first await
OrderArrive(r, u, shippingAddress, items) ==
    /\ orderReq[r].pc = "idle"
    /\ \A b \in DOMAIN orderReq : b < r => orderReq[b].pc # "idle"
    /\ orderReq' = [orderReq EXCEPT ![r] =
          [IdleOrder EXCEPT
              !.user = u, !.shippingAddress = shippingAddress, !.items = items,
              !.i = 1,
              !.unresolved = \E k \in DOMAIN items :
                                 getProduct(items[k].productId) = NoProduct,
              !.pc = IF ~isAuthenticated(u) THEN "done"
                     ELSE IF items = <<>> THEN "create" ELSE "loop",
              !.response = IF ~isAuthenticated(u) THEN 401 ELSE 0]]
    /\ UNCHANGED <<dashVars, reply, dbVars, addReq, faults, addLog>>

\* one turn of the pricing loop: getProduct, the 400 of an unknown product,
\* total += price * quantity
OrderLookup(r) ==
    LET q       == orderReq[r]
        item    == q.items[q.i]
        product == getProduct(item.productId)
    IN
    /\ q.pc = "loop"
    /\ orderReq' =
          IF Unresolved(product)
          THEN Reply(r, 400)
          ELSE [orderReq EXCEPT
                   ![r].total = @ + LineTotal(product, item),
                   ![r].i = IF q.i = Len(q.items) THEN 1 ELSE q.i + 1,
                   ![r].pc = IF q.i = Len(q.items) THEN "snap" ELSE "loop"]
    /\ UNCHANGED <<dashVars, reply, dbVars, addReq, faults, addLog>>

\* the snapshot gone wrong: `product?.price`, a missing product gives the
\* item no price and the handler goes on
OrderSnapshotUnguarded(r) ==
    LET q       == orderReq[r]
        item    == q.items[q.i]
        product == getProduct(item.productId)
    IN
    /\ q.pc = "snap"
    /\ orderReq' =
          [orderReq EXCEPT
              ![r].itemsWithPrices = Append(@, WithPrice(item, product)),
              ![r].i = IF q.i = Len(q.items) THEN 1 ELSE q.i + 1,
              ![r].pc = IF q.i = Len(q.items) THEN "create" ELSE "snap"]
    /\ UNCHANGED <<dashVars, reply, dbVars, addReq, faults, addLog>>

\* one getProduct of the Promise.all that copies the prices into the items
OrderSnapshot(r) ==
    LET q       == orderReq[r]
        item    == q.items[q.i]
        product == getProduct(item.productId)
    IN
    /\ q.pc = "snap"
    /\ orderReq' =
          IF Unresolved(product)
          THEN Reply(r, 400)
          ELSE [orderReq EXCEPT
                   ![r].itemsWithPrices = Append(@, WithPrice(item, product)),
                   ![r].i = IF q.i = Len(q.items) THEN 1 ELSE q.i + 1,
                   ![r].pc = IF q.i = Len(q.items) THEN "create" ELSE "snap"]
    /\ UNCHANGED <<dashVars, reply, dbVars, addReq, faults, addLog>>

\* the insert gone wrong: db.insert instead of tx.insert writes at once
TxInsertAutocommit(table, pending, row) ==
    [table |-> table \cup {row}, pending |-> pending]

\* tx.insert inside db.transaction: the row is pending until the commit
TxInsert(table, pending, row) ==
    [table |-> table, pending |-> pending \cup {row}]

\* storage.createOrder: tx.insert(orders).values(order).returning()
TxInsertOrder(r) ==
    LET q   == orderReq[r]
        row == [id |-> nextOrderId, userId |-> q.user, total |-> q.total,
                status |-> "pending", shippingAddress |-> q.shippingAddress]
        w   == TxInsert(orders, q.txOrders, row)
    IN
    /\ q.pc = "create"
    /\ orders' = w.table
    /\ nextOrderId' = nextOrderId + 1
    /\ orderReq' = [orderReq EXCEPT ![r].txOrders = w.pending,
                                    ![r].order = row.id,
                                    ![r].i = 1,
                                    ![r].pc = "items"]
    /\ UNCHANGED <<otherVars, prodTbl, cartItems, nextCartId, orderItems, nextItemId,
                   addReq, faults, addLog>>

\* the insert gone wrong: the stock of the product is taken down with it
TxInsertItemTakingStock(r) ==
    LET q    == orderReq[r]
        item == q.itemsWithPrices[q.i]
        row  == [id |-> nextItemId, orderId |-> q.order,
                 productId |-> item.productId, quantity |-> item.quantity,
                 price |-> item.price]
        w    == TxInsert(orderItems, q.txItems, row)
    IN
    /\ q.pc = "items"
    /\ q.i <= Len(q.itemsWithPrices)
    /\ orderItems' = w.table
    /\ nextItemId' = nextItemId + 1
    /\ products' = {IF p.id = item.productId
                    THEN [p EXCEPT !.stock = @ - item.quantity]
                    ELSE p : p \in products}
    /\ orderReq' = [orderReq EXCEPT ![r].txItems = w.pending, ![r].i = q.i + 1]
    /\ UNCHANGED <<otherVars, nextProductId, cartItems, nextCartId, orders,
                   nextOrderId, addReq, faults, addLog>>

\* storage.createOrder: one tx.insert(orderItems) of the loop
TxInsertItem(r) ==
    LET q    == orderReq[r]
        item == q.itemsWithPrices[q.i]
        row  == [id |-> nextItemId, orderId |-> q.order,
                 productId |-> item.productId, quantity |-> item.quantity,
                 price |-> item.price]
        w    == TxInsert(orderItems, q.txItems, row)
    IN
    /\ q.pc = "items"
    /\ q.i <= Len(q.itemsWithPrices)
    /\ orderItems' = w.table
    /\ nextItemId' = nextItemId + 1
    /\ orderReq' = [orderReq EXCEPT ![r].txItems = w.pending, ![r].i = q.i + 1]
    /\ UNCHANGED <<otherVars, prodTbl, cartItems, nextCartId, orders, nextOrderId,
                   addReq, faults, addLog>>

\* storage.createOrder: the transaction commits and returns newOrder
TxCommit(r) ==
    LET q == orderReq[r] IN
    /\ q.pc = "items"
    /\ q.i > Len(q.itemsWithPrices)
    /\ orders' = orders \cup q.txOrders
    /\ orderItems' = orderItems \cup q.txItems
    /\ orderReq' = [orderReq EXCEPT ![r].txOrders = {}, ![r].txItems = {},
                                    ![r].pc = "clear"]
    /\ UNCHANGED <<otherVars, prodTbl, cartItems, nextCartId, nextOrderId, nextItemId,
                   addReq, faults, addLog>>

\* storage.clearCart(req.user.id), then res.status(201)
OrderClearCart(r) ==
    LET q == orderReq[r] IN
    /\ q.pc = "clear"
    /\ cartItems' = clearCart(q.user)
    /\ addLog' = Disturb(addLog, PairsOf(q.user))
    /\ orderReq' = Reply(r, 201)
    /\ UNCHANGED <<otherVars, prodTbl, nextCartId, orderTbl, addReq, faults>>

\* orderStatusEnum
OrderStatuses == {"pending", "confirmed", "shipped", "delivered", "cancelled"}

\* storage.updateOrderStatus: UPDATE orders SET status WHERE id = id
updateOrderStatus(id, status) ==
    {IF o.id = id THEN [o EXCEPT !.status = status] ELSE o : o \in orders}

\* a call of storage.updateOrderStatus with a value of the enum (no route of
\* the server calls it; the column rejects any other string)
UpdateOrderStatus(id, status) ==
    /\ orders' = updateOrderStatus(id, status)
    /\ UNCHANGED <<otherVars, prodTbl, cartItems, nextCartId, orderItems,
                   nextOrderId, nextItemId, addReq, orderReq, faults, addLog>>

\* a statement of the handler throws (the store is unavailable): an open
\* transaction rolls back, and the catch block answers 400
StorageFault(r) ==
    /\ orderReq[r].pc \in {"loop", "snap", "create", "items", "clear"}
    /\ faults < MaxFaults
    /\ faults' = faults + 1
    /\ orderReq' = Reply(r, 400)
    /\ UNCHANGED <<dashVars, reply, dbVars, addReq, addLog>>

\* --------------------------------------------------------------- projects
ProjectIds == 1..MaxProjects

NoProject == [id |-> 0, name |-> <<>>, clientId |-> NoUser]

\* storage.getProject: the row, or undefined
getProject(id) ==
    IF \E p \in projects : p.id = id
    THEN CHOOSE p \in projects : p.id = id
    ELSE NoProject

\* the middleware, then the handler's own status
Gated(u, roles, status) == IF Gate(u, roles) # 0 THEN Gate(u, roles) ELSE status

\* insertProjectSchema.parse: name is the column without default
ValidProject(body) == "name" \in DOMAIN body

\* POST /api/projects: the body's clientId is overridden by the principal
CreateProject(u, body) ==
    LET status == Gated(u, {"client", "admin"},
                        IF ValidProject(body) THEN 201 ELSE 400)
    IN
    /\ status = 201 => nextProjectId <= MaxProjects
    /\ IF status = 201
       THEN /\ projects' = projects \cup
                 {[id |-> nextProjectId, name |-> body.name, clientId |-> u]}
            /\ nextProjectId' = nextProjectId + 1
       ELSE UNCHANGED <<projects, nextProjectId>>
    /\ reply' = Answer("POST /api/projects", u, status)
    /\ UNCHANGED <<dashVars, shopVars, milestones, nextMilestoneId, progressImages,
                   nextImageId>>

\* insertMilestoneSchema.parse: title is the column without default
ValidMilestone(body) == "title" \in DOMAIN body

\* the value of milestones.completed_at in a row that was given none: NULL
NullStamp == 0

\* POST /api/projects/:projectId/milestones: the row goes under the project
\* id of the path, which the handler does not look up; the insert schema
\* omits completedAt, so that the body's value is dropped and the column,
\* which has no default, stays NULL
CreateMilestone(u, projectId, body) ==
    LET status == Gated(u, {"client", "admin"},
                        IF ValidMilestone(body) THEN 201 ELSE 400)
    IN
    /\ status = 201 => nextMilestoneId <= MaxMilestones
    /\ IF status = 201
       THEN /\ milestones' = milestones \cup
                 {[id |-> nextMilestoneId, projectId |-> projectId,
                   title |-> body.title,
                   status |-> IF "status" \in DOMAIN body THEN body.status
                              ELSE "pending",
                   completedAt |-> NullStamp,
                   createdAt |-> nextMilestoneId]}
            /\ nextMilestoneId' = nextMilestoneId + 1
       ELSE UNCHANGED <<milestones, nextMilestoneId>>
    /\ reply' = Answer("POST /api/projects/:projectId/milestones", u, status)
    /\ UNCHANGED <<dashVars, shopVars, projects, nextProjectId, progressImages,
                   nextImageId>>

\* milestoneStatusEnum
MilestoneStatuses == {"pending", "in_progress", "completed"}

\* storage.updateMilestone: UPDATE milestones SET ... WHERE id = id
updateMilestone(id, data) ==
    {IF m.id = id THEN [f \in DOMAIN m |-> IF f \in DOMAIN data THEN data[f] ELSE m[f]]
                  ELSE m : m \in milestones}

\* a call of storage.updateMilestone (no route of the server calls it)
UpdateMilestone(id, data) ==
    /\ milestones' = updateMilestone(id, data)
    /\ UNCHANGED <<dashVars, reply, shopVars, projects, nextProjectId,
                   nextMilestoneId, progressImages, nextImageId>>

\* POST /api/projects/:projectId/images: 400 without a file, else the row
\* goes under the project id of the path, uploadedBy the principal
CreateProgressImage(u, projectId, hasFile) ==
    LET status == Gated(u, {"client", "admin"}, IF hasFile THEN 201 ELSE 400)
    IN
    /\ status = 201 => nextImageId <= MaxImages
    /\ IF status = 201
       THEN /\ progressImages' = progressImages \cup
                 {[id |-> nextImageId, projectId |-> projectId,
                   uploadedBy |-> u]}
            /\ nextImageId' = nextImageId + 1
       ELSE UNCHANGED <<progressImages, nextImageId>>
    /\ reply' = Answer("POST /api/projects/:projectId/images", u, status)
    /\ UNCHANGED <<dashVars, shopVars, projects, nextProjectId, milestones,
                   nextMilestoneId>>

\* ------------------------------------------------- admin and seller routes
\* a route that reads only: the middleware, then 200
ReadOnly(op, u, roles) ==
    /\ reply' = Answer(op, u, Gated(u, roles, 200))
    /\ UNCHANGED <<dashVars, dbVars, addReq, orderReq, faults, addLog>>

\* GET /api/admin/users, GET /api/admin/stats
GetAdminUsers(u) == ReadOnly("GET /api/admin/users", u, {"admin"})
GetAdminStats(u) == ReadOnly("GET /api/admin/stats", u, {"admin"})

\* GET /api/seller/products, GET /api/seller/orders
GetSellerProducts(u) == ReadOnly("GET /api/seller/products", u, {"seller"})
GetSellerOrders(u)   == ReadOnly("GET /api/seller/orders", u, {"seller"})

\* ------------------------------------------------------ double arithmetic
\* The dashboard computes in IEEE 754 doubles.  A positive double is [m, e]:
\* m the bits of its significand, the first one 1, most significant first;
\* its value is m * 2^(-e).
Precision == 53
Zero      == [m |-> <<>>, e |-> 0]

RECURSIVE Reverse(_)
Reverse(s) == IF s = <<>> THEN <<>> ELSE Append(Reverse(Tail(s)), Head(s))

\* the first k binary digits of rem / n after the point (0 <= rem < n)
RECURSIVE FracBits(_, _, _)
FracBits(rem, n, k) ==
    IF k = 0 THEN <<>>
    ELSE <<(2 * rem) \div n>> \o FracBits((2 * rem) % n, n, k - 1)

\* the remainder left after k digits
RECURSIVE RemAfter(_, _, _)
RemAfter(rem, n, k) == IF k = 0 THEN rem ELSE RemAfter((2 * rem) % n, n, k - 1)

\* the zero digits before the first one of rem / n (0 < rem < n)
RECURSIVE LeadingZeros(_, _)
LeadingZeros(rem, n) ==
    IF 2 * rem >= n THEN 0 ELSE 1 + LeadingZeros(2 * rem, n)

\* bits + 1; the carry out of all ones makes the sequence one bit longer
RECURSIVE Increment(_)
Increment(bits) ==
    IF bits = <<>> THEN <<1>>
    ELSE IF bits[Len(bits)] = 0
         THEN Append(SubSeq(bits, 1, Len(bits) - 1), 1)
         ELSE Append(Increment(SubSeq(bits, 1, Len(bits) - 1)), 0)

\* round to nearest, ties to even: bits are the digits kept of a value,
\* guard the first digit dropped, sticky whether a one follows it
RoundNearestEven(bits, e, guard, sticky) ==
    IF guard = 1 /\ (sticky \/ bits[Len(bits)] = 1)
    THEN LET up == Increment(bits) IN
         IF Len(up) > Len(bits)
         THEN [m |-> SubSeq(up, 1, Len(bits)), e |-> e - 1]
         ELSE [m |-> up, e |-> e]
    ELSE [m |-> bits, e |-> e]

\* c / n in doubles, for integers 0 <= c <= n, n > 0
Divide(c, n) ==
    IF c = 0 THEN Zero
    ELSE IF c = n THEN [m |-> <<1>> \o [i \in 1..(Precision - 1) |-> 0],
                        e |-> Precision - 1]
    ELSE LET z   == LeadingZeros(c, n)
             all == FracBits(c, n, z + Precision)
             rem == RemAfter(c, n, z + Precision)
         IN RoundNearestEven(SubSeq(all, z + 1, z + Precision), z + Precision,
                             (2 * rem) \div n, (2 * rem) % n # 0)

\* bits * k, least significant bit first
RECURSIVE TimesSmall(_, _, _)
TimesSmall(lsb, k, carry) ==
    IF lsb = <<>>
    THEN IF carry = 0 THEN <<>>
         ELSE <<carry % 2>> \o TimesSmall(<<>>, k, carry \div 2)
    ELSE LET t == Head(lsb) * k + carry IN
         <<t % 2>> \o TimesSmall(Tail(lsb), k, t \div 2)

\* x * k in doubles, for a double x and an integer k >= 1
Times(x, k) ==
    IF x = Zero THEN Zero
    ELSE LET p    == Reverse(TimesSmall(Reverse(x.m), k, 0))
             drop == Len(p) - Precision
         IN RoundNearestEven(SubSeq(p, 1, Precision), x.e - drop,
                             IF drop = 0 THEN 0 ELSE p[Precision + 1],
                             \E i \in (Precision + 2)..Len(p) : p[i] = 1)

\* the integer a bit sequence denotes
RECURSIVE BitsToNat(_)
BitsToNat(bits) ==
    IF bits = <<>> THEN 0
    ELSE 2 * BitsToNat(SubSeq(bits, 1, Len(bits) - 1)) + bits[Len(bits)]

\* Math.round: the nearest integer, a tie goes up (for 0 <= x < 2^31)
MathRound(x) ==
    IF x = Zero \/ x.e > Precision THEN 0
    ELSE IF x.e = Precision THEN 1
    ELSE IF x.e <= 0 THEN BitsToNat(x.m)
    ELSE BitsToNat(SubSeq(x.m, 1, Precision - x.e)) + x.m[Precision - x.e + 1]

\* -------------------------------------------------------------- dashboard
\* a query without data (`milestones || []` reads it as the empty list)
Undefined == [loaded |-> FALSE, data |-> <<>>]

\* the dashboard before a project is selected
NoDashboard ==
    /\ selectedProject = 0
    /\ milestonesData = Undefined

\* the client whose dashboard is shown
Viewer == "cleo"

\* storage.getMilestonesByProject, newest first
getMilestonesByProject(projectId) ==
    orderByCreatedAtDesc({m \in milestones : m.projectId = projectId})

\* GET /api/projects/:projectId/milestones: status and body
GetMilestones(u, projectId) ==
    IF AuthGate(u) # 0 THEN [status |-> 401, body |-> <<>>]
    ELSE IF getProject(projectId) = NoProject THEN [status |-> 404, body |-> <<>>]
    ELSE IF Role[u] # "admin" /\ getProject(projectId).clientId # u
         THEN [status |-> 403, body |-> <<>>]
    ELSE [status |-> 200, body |-> getMilestonesByProject(projectId)]

\* onClick of a project of the list: setSelectedProject(project); the
\* milestones query of the new key has no data yet
SelectProject(projectId) ==
    /\ getProject(projectId) # NoProject
    /\ selectedProject' = projectId
    /\ milestonesData' = Undefined
    /\ UNCHANGED <<dbVars, addReq, orderReq, faults, addLog, reply>>

\* the milestones query of the selected project gets its response
MilestonesLoaded ==
    LET res == GetMilestones(Viewer, selectedProject) IN
    /\ selectedProject # 0
    /\ milestonesData' = IF res.status = 200
                         THEN [loaded |-> TRUE, data |-> res.body]
                         ELSE milestonesData
    /\ reply' = Answer("GET /api/projects/:projectId/milestones", Viewer,
                       res.status)
    /\ UNCHANGED <<dbVars, addReq, orderReq, faults, addLog, selectedProject>>

\* getProjectProgress of the dashboard: the argument is not used, the
\* milestones are those of the query
getProjectProgress(projectId) ==
    LET projectMilestones == IF milestonesData.loaded THEN milestonesData.data
                             ELSE <<>>
        completed == Cardinality({k \in DOMAIN projectMilestones :
                                     projectMilestones[k].status = "completed"})
    IN IF Len(projectMilestones) = 0 THEN 0
       ELSE MathRound(Times(Divide(completed, Len(projectMilestones)), 100))

\* ------------------------------------------------------------ specification
Callers == Principals \cup {NoUser}

\* no response yet
NoReply == [op |-> "none", user |-> NoUser, status |-> 0]

\* the project tables of a fresh store
NoProjects ==
    /\ projects = {}
    /\ nextProjectId = 1
    /\ milestones = {}
    /\ nextMilestoneId = 1
    /\ progressImages = {}
    /\ nextImageId = 1

\* a catalog of MaxProducts live products of the seller sam, as a run of
\* POST /api/products leaves it
Catalog(pr) ==
    {[id |-> i, name |-> <<"a">>, category |-> <<"a">>, price |-> pr[i],
      stock |-> MaxStock, sellerId |-> "sam", isActive |-> TRUE,
      createdAt |-> i] : i \in ProductIds}

Catalogs == {Catalog(pr) : pr \in [ProductIds -> Prices]}

\* the carts as runs of POST /api/cart with quantity 1 leave them: alice
\* holds every product, sam the first one
FilledCarts ==
    {[id |-> i, userId |-> "alice", productId |-> i, quantity |-> 1] :
        i \in ProductIds}
    \cup {[id |-> MaxProducts + 1, userId |-> "sam", productId |-> 1,
            quantity |-> 1]}

InitLog == [k \in Principals \X (0..MaxProducts) |->
               [sum |-> 0, n |-> 0, serial |-> TRUE]]

\* the checkout flow: orders are placed against a stocked catalog and filled
\* carts while the seller edits and deletes products
Init ==
    /\ products \in Catalogs
    /\ nextProductId = MaxProducts + 1
    /\ cartItems = FilledCarts
    /\ nextCartId = Cardinality(cartItems) + 1
    /\ orders = {}
    /\ orderItems = {}
    /\ nextOrderId = 1
    /\ nextItemId = 1
    /\ addReq = [a \in 1..MaxAddReq |-> IdleAdd]
    /\ orderReq = [r \in 1..MaxOrderReq |-> IdleOrder]
    /\ faults = 0
    /\ addLog = Disturb(InitLog, DOMAIN InitLog)
    /\ NoProjects
    /\ reply = NoReply
    /\ NoDashboard

OrderStep(r) ==
    \/ OrderLookup(r)
    \/ OrderSnapshot(r)
    \/ TxInsertOrder(r)
    \/ TxInsertItem(r)
    \/ TxCommit(r)
    \/ OrderClearCart(r)
    \/ StorageFault(r)

Next ==
    \/ \E u \in Callers, id \in ProductIds, price \in Prices :
          UpdateProduct(u, id, [price |-> price])
    \/ \E u \in Callers, id \in ProductIds : DeleteProduct(u, id)
    \/ \E r \in 1..MaxOrderReq, u \in Callers, shippingAddress \in Addresses,
          items \in OrderBodies :
          OrderArrive(r, u, shippingAddress, items)
    \/ \E r \in 1..MaxOrderReq : OrderStep(r)

Spec == Init /\ [][Next]_vars

\* the repeated checkout: orders of one line each, placed one after or
\* during another against filled carts, while the seller edits and deletes
\* products; the store fails no statement
InitCheckouts ==
    /\ products = Catalog([i \in ProductIds |-> 1])
    /\ nextProductId = MaxProducts + 1
    /\ cartItems = FilledCarts
    /\ nextCartId = Cardinality(cartItems) + 1
    /\ orders = {}
    /\ orderItems = {}
    /\ nextOrderId = 1
    /\ nextItemId = 1
    /\ addReq = [a \in 1..MaxAddReq |-> IdleAdd]
    /\ orderReq = [r \in 1..MaxCheckouts |-> IdleOrder]
    /\ faults = 0
    /\ addLog = Disturb(InitLog, DOMAIN InitLog)
    /\ NoProjects
    /\ reply = NoReply
    /\ NoDashboard

NextCheckouts ==
    \/ \E id \in ProductIds, price \in Prices :
          UpdateProduct("sam", id, [price |-> price])
    \/ \E id \in ProductIds : DeleteProduct("sam", id)
    \/ \E r \in 1..MaxCheckouts, u \in Principals,
          items \in [1..1 -> OrderLines] :
          OrderArrive(r, u, "12 Ring Road", items)
    \/ \E r \in 1..MaxCheckouts :
          \/ OrderLookup(r)
          \/ OrderSnapshot(r)
          \/ TxInsertOrder(r)
          \/ TxInsertItem(r)
          \/ TxCommit(r)
          \/ OrderClearCart(r)

SpecCheckouts == InitCheckouts /\ [][NextCheckouts]_vars

\* the status of orders: alice places orders of one line, and the storage
\* is asked to set the status of orders
StatusOrder == <<[productId |-> 1, quantity |-> 1]>>

NextStatus ==
    \/ \E r \in 1..MaxCheckouts :
          OrderArrive(r, "alice", "12 Ring Road", StatusOrder)
    \/ \E r \in 1..MaxCheckouts :
          \/ OrderLookup(r)
          \/ OrderSnapshot(r)
          \/ TxInsertOrder(r)
          \/ TxInsertItem(r)
          \/ TxCommit(r)
          \/ OrderClearCart(r)
    \/ \E id \in 1..MaxCheckouts, status \in OrderStatuses :
          UpdateOrderStatus(id, status)

SpecStatus == InitCheckouts /\ [][NextStatus]_vars

\* the dashboard of a client with two projects: the first has n milestones,
\* the first c of them completed, the second has none
MilestoneTable(n, c) ==
    {[id |-> i, projectId |-> 1, title |-> <<"a">>,
      status |-> IF i <= c THEN "completed"
                 ELSE IF i % 2 = 0 THEN "in_progress" ELSE "pending",
      completedAt |-> NullStamp, createdAt |-> i] : i \in 1..n}

InitProgress ==
    /\ products = {}
    /\ nextProductId = 1
    /\ cartItems = {}
    /\ nextCartId = 1
    /\ orders = {}
    /\ orderItems = {}
    /\ nextOrderId = 1
    /\ nextItemId = 1
    /\ addReq = [a \in 1..MaxAddReq |-> IdleAdd]
    /\ orderReq = [r \in 1..MaxOrderReq |-> IdleOrder]
    /\ faults = 0
    /\ addLog = InitLog
    /\ projects = {[id |-> i, name |-> <<"a">>, clientId |-> Viewer] :
                      i \in 1..2}
    /\ nextProjectId = 3
    /\ \E n \in 0..MaxListed, c \in 0..MaxListed :
          /\ c <= n
          /\ milestones = MilestoneTable(n, c)
          /\ nextMilestoneId = n + 1
    /\ progressImages = {}
    /\ nextImageId = 1
    /\ reply = NoReply
    /\ NoDashboard

NextProgress ==
    \/ \E projectId \in 1..2 : SelectProject(projectId)
    \/ MilestonesLoaded

SpecProgress == InitProgress /\ [][NextProgress]_vars

\* the cart: requests of every principal on an empty cart table
InitCart ==
    /\ products = Catalog([i \in ProductIds |-> 1])
    /\ nextProductId = MaxProducts + 1
    /\ cartItems = {}
    /\ nextCartId = 1
    /\ orders = {}
    /\ orderItems = {}
    /\ nextOrderId = 1
    /\ nextItemId = 1
    /\ addReq = [a \in 1..MaxAddReq |-> IdleAdd]
    /\ orderReq = [r \in 1..MaxOrderReq |-> IdleOrder]
    /\ faults = 0
    /\ addLog = InitLog
    /\ NoProjects
    /\ reply = NoReply
    /\ NoDashboard

NextCart ==
    \/ \E a \in 1..MaxAddReq, u \in Callers, pid \in ProductIds,
          hasQuantity \in BOOLEAN, quantity \in CartQtys :
          AddToCartSelect(a, u, pid, hasQuantity, quantity)
    \/ \E a \in 1..MaxAddReq : AddToCartWrite(a)
    \/ \E u \in Callers, id \in 1..MaxAddReq, quantity \in CartQtys :
          UpdateCartItem(u, id, quantity)
    \/ \E u \in Callers, id \in 1..MaxAddReq : RemoveFromCart(u, id)

SpecCart == InitCart /\ [][NextCart]_vars

\* the concurrent adds: POST /api/cart requests of the principals with
\* positive quantities, run one during another, on a cart that holds a row
\* of alice for product 1
InitAdds ==
    /\ products = Catalog([i \in ProductIds |-> 1])
    /\ nextProductId = MaxProducts + 1
    /\ \E q0 \in OrderQtys :
          /\ cartItems = {[id |-> 1, userId |-> "alice", productId |-> 1,
                           quantity |-> q0]}
          /\ addLog = [InitLog EXCEPT ![<<"alice", 1>>] =
                          [sum |-> q0, n |-> 1, serial |-> TRUE]]
    /\ nextCartId = 2
    /\ orders = {}
    /\ orderItems = {}
    /\ nextOrderId = 1
    /\ nextItemId = 1
    /\ addReq = [a \in 1..MaxAddReq |-> IdleAdd]
    /\ orderReq = [r \in 1..MaxOrderReq |-> IdleOrder]
    /\ faults = 0
    /\ NoProjects
    /\ reply = NoReply
    /\ NoDashboard

NextAdds ==
    \/ \E a \in 1..MaxAddReq, u \in Principals, pid \in ProductIds,
          hasQuantity \in BOOLEAN, quantity \in OrderQtys :
          AddToCartSelect(a, u, pid, hasQuantity, quantity)
    \/ \E a \in 1..MaxAddReq : AddToCartWrite(a)

SpecAdds == InitAdds /\ [][NextAdds]_vars

\* the catalog: every caller creates, edits, deletes and lists products,
\* starting from an empty store
Everyone == Accounts \cup {NoUser}

Names      == {<<"a">>, <<"b">>}
Categories == {<<"a">>, <<"b">>}

\* the values of the search and category parameters: none, blank, a text
Filters == {<<>>, <<" ">>} \cup Names

\* the bodies of POST /api/products: complete ones, with or without
\* isActive, and one without category
ProductBodies ==
    {[name |-> n, category |-> c, price |-> 1] : n \in Names, c \in Categories}
    \cup {[name |-> n, category |-> c, price |-> 1, isActive |-> FALSE] :
            n \in Names, c \in Categories}
    \cup {[name |-> n, price |-> 1] : n \in Names}

\* the bodies of PUT /api/products/:id
ProductPatches ==
    {[isActive |-> b] : b \in BOOLEAN}
    \cup {[name |-> n] : n \in Names}
    \cup {[category |-> c] : c \in Categories}

InitEmpty ==
    /\ products = {}
    /\ nextProductId = 1
    /\ cartItems = {}
    /\ nextCartId = 1
    /\ orders = {}
    /\ orderItems = {}
    /\ nextOrderId = 1
    /\ nextItemId = 1
    /\ addReq = [a \in 1..MaxAddReq |-> IdleAdd]
    /\ orderReq = [r \in 1..MaxOrderReq |-> IdleOrder]
    /\ faults = 0
    /\ addLog = InitLog
    /\ NoProjects
    /\ reply = NoReply
    /\ NoDashboard

NextCatalog ==
    \/ \E u \in Everyone, body \in ProductBodies : CreateProduct(u, body)
    \/ \E u \in Everyone, id \in ProductIds, data \in ProductPatches :
          PutProductById(u, id, data)
    \/ \E u \in Everyone, id \in ProductIds : DeleteProductById(u, id)
    \/ \E u \in Everyone, search \in Filters, category \in Filters :
          GetProducts(u, search, category)

SpecCatalog == InitEmpty /\ [][NextCatalog]_vars

\* the fields of a product: sellers, the admin and a buyer create products
\* and send PUT bodies that name id, createdAt and sellerId
ForgedId == 0 - 1                      \* an id of the caller's choosing

FieldCallers == {"sam", "sue", "ada", "alice"}

\* the bodies of POST /api/products, with or without a sellerId
ForgedBodies ==
    {[name |-> <<"a">>, category |-> <<"a">>, price |-> 1]}
    \cup {[name |-> <<"a">>, category |-> <<"a">>, price |-> 1, sellerId |-> u] :
            u \in {"sam", "sue"}}

\* the bodies of PUT /api/products/:id
FieldPatches ==
    {[name |-> <<"b">>]}
    \cup {[id |-> i] : i \in ProductIds \cup {ForgedId}}
    \cup {[createdAt |-> 0]}
    \cup {[sellerId |-> u] : u \in {"sam", "sue"}}

NextFields ==
    \/ \E u \in FieldCallers, body \in ForgedBodies : CreateProduct(u, body)
    \/ \E u \in FieldCallers, id \in ProductIds \cup {ForgedId},
          data \in FieldPatches :
          PutProductById(u, id, data)

SpecFields == InitEmpty /\ [][NextFields]_vars

\* the projects: every caller creates projects, milestones and progress
\* images, starting from an empty store
ProjectBodies   == {[name |-> <<"a">>], [location |-> <<"a">>]}
MilestoneBodies == {[title |-> <<"a">>], [status |-> "pending"]}

NextProjects ==
    \/ \E u \in Everyone, body \in ProjectBodies : CreateProject(u, body)
    \/ \E u \in Everyone, projectId \in ProjectIds, body \in MilestoneBodies :
          CreateMilestone(u, projectId, body)
    \/ \E u \in Everyone, projectId \in ProjectIds, hasFile \in BOOLEAN :
          CreateProgressImage(u, projectId, hasFile)

SpecProjects == InitEmpty /\ [][NextProjects]_vars

\* the milestones: the owner of the projects, the admin, a buyer and a
\* caller without a session create milestones with or without a status and
\* a completedAt of their own, and the storage is asked to set the status
\* of milestones
InitMilestones ==
    /\ products = {}
    /\ nextProductId = 1
    /\ cartItems = {}
    /\ nextCartId = 1
    /\ orders = {}
    /\ orderItems = {}
    /\ nextOrderId = 1
    /\ nextItemId = 1
    /\ addReq = [a \in 1..MaxAddReq |-> IdleAdd]
    /\ orderReq = [r \in 1..MaxOrderReq |-> IdleOrder]
    /\ faults = 0
    /\ addLog = InitLog
    /\ projects = {[id |-> i, name |-> <<"a">>, clientId |-> Viewer] :
                      i \in ProjectIds}
    /\ nextProjectId = MaxProjects + 1
    /\ milestones = {}
    /\ nextMilestoneId = 1
    /\ progressImages = {}
    /\ nextImageId = 1
    /\ reply = NoReply
    /\ NoDashboard

MilestoneCallers == {Viewer, "ada", "alice", NoUser}

StampedBodies ==
    {[title |-> <<"a">>]}
    \cup {[title |-> <<"a">>, status |-> st] : st \in MilestoneStatuses}
    \cup {[title |-> <<"a">>, status |-> st, completedAt |-> 1] :
            st \in MilestoneStatuses}

NextMilestones ==
    \/ \E u \in MilestoneCallers, projectId \in ProjectIds,
          body \in StampedBodies :
          CreateMilestone(u, projectId, body)
    \/ \E id \in 1..MaxMilestones, st \in MilestoneStatuses :
          UpdateMilestone(id, [status |-> st])

SpecMilestones == InitMilestones /\ [][NextMilestones]_vars

\* the access gate, on a store that holds a product and a cart row: the
\* caller without a session at every route that changes a table, the admin
\* at the project routes, every caller at the admin and seller routes
GateCallers == {NoUser, "ada"}

InitGate ==
    /\ products = {p \in Catalog([i \in ProductIds |-> 1]) : p.id = 1}
    /\ nextProductId = 2
    /\ cartItems = {[id |-> 1, userId |-> "alice", productId |-> 1,
                     quantity |-> 1]}
    /\ nextCartId = 2
    /\ orders = {}
    /\ orderItems = {}
    /\ nextOrderId = 1
    /\ nextItemId = 1
    /\ addReq = [a \in 1..MaxAddReq |-> IdleAdd]
    /\ orderReq = [r \in 1..MaxOrderReq |-> IdleOrder]
    /\ faults = 0
    /\ addLog = Disturb(InitLog, DOMAIN InitLog)
    /\ NoProjects
    /\ reply = NoReply
    /\ NoDashboard

\* the requests of the caller without a session
Anonymous ==
    \/ \E body \in ProductBodies : CreateProduct(NoUser, body)
    \/ \E id \in ProductIds, data \in ProductPatches :
          PutProductById(NoUser, id, data)
    \/ \E id \in ProductIds : DeleteProductById(NoUser, id)
    \/ \E search \in Filters, category \in Filters :
          GetProducts(NoUser, search, category)
    \/ \E a \in 1..MaxAddReq, pid \in ProductIds, hasQuantity \in BOOLEAN,
          quantity \in CartQtys :
          AddToCartSelect(a, NoUser, pid, hasQuantity, quantity)
    \/ \E id \in 1..MaxAddReq, quantity \in CartQtys :
          UpdateCartItem(NoUser, id, quantity)
    \/ \E id \in 1..MaxAddReq : RemoveFromCart(NoUser, id)
    \/ \E r \in 1..MaxOrderReq, shippingAddress \in Addresses \ {""},
          items \in SeqsUpTo(OrderLines, 1) :
          OrderArrive(r, NoUser, shippingAddress, items)

NextGate ==
    \/ \E u \in GateCallers, body \in ProjectBodies : CreateProject(u, body)
    \/ \E u \in GateCallers, projectId \in ProjectIds,
          body \in MilestoneBodies : CreateMilestone(u, projectId, body)
    \/ \E u \in GateCallers, projectId \in ProjectIds, hasFile \in BOOLEAN :
          CreateProgressImage(u, projectId, hasFile)
    \/ \E u \in Everyone : GetAdminUsers(u)
    \/ \E u \in Everyone : GetAdminStats(u)
    \/ \E u \in Everyone : GetSellerProducts(u)
    \/ \E u \in Everyone : GetSellerOrders(u)
    \/ Anonymous

SpecGate == InitGate /\ [][NextGate]_vars

\* ------------------------------------------------------------------ claims
OrderReqs == DOMAIN orderReq

\* the committed rows of the order a request has inserted
OrderRowsOf(r)  == {o \in orders : o.id = orderReq[r].order}
ItemRowsOf(r)   == {it \in orderItems : it.orderId = orderReq[r].order}

\* sum over the lines of quantity * current catalog price
CatalogTotal(items) ==
    SumSeq([k \in DOMAIN items |->
               items[k].quantity * getProduct(items[k].productId).price])

\* C1: the total stored with an order is the sum over the requested lines of
\* quantity * the catalog price of the product at the time the order is
\* created, and every stored item carries that catalog price, whatever price
\* the caller sent (stated for the orders whose products all exist then).
C1_TotalIsCatalogPriceAtCreation ==
    [][\A r \in OrderReqs :
          (TxCommit(r) /\ \A k \in DOMAIN orderReq[r].items :
                             getProduct(orderReq[r].items[k].productId) # NoProduct)
          => /\ \A o \in orderReq[r].txOrders :
                   o.total = CatalogTotal(orderReq[r].items)
             /\ \A it \in orderReq[r].txItems :
                   it.price = getProduct(it.productId).price]_vars

\* C2: an order row is visible if and only if all the item rows of its request
\* are: never an order with only some of its items, never items without order.
C2_OrderAllOrNothing ==
    /\ \A r \in OrderReqs :
          LET q == orderReq[r] IN
          IF OrderRowsOf(r) # {}
          THEN /\ Cardinality(ItemRowsOf(r)) = Len(q.items)
               /\ \A k \in DOMAIN q.items : \E it \in ItemRowsOf(r) :
                     /\ it.productId = q.items[k].productId
                     /\ it.quantity = q.items[k].quantity
               /\ \A it \in ItemRowsOf(r) : \E k \in DOMAIN q.items :
                     /\ it.productId = q.items[k].productId
                     /\ it.quantity = q.items[k].quantity
          ELSE ItemRowsOf(r) = {}
    /\ \A it \in orderItems : \E o \in orders : o.id = it.orderId

\* C2 witness: the store failed after the order and its first item were
\* inserted, before the second item; nothing of the order is visible
C2_Witness ==
    \E r \in OrderReqs :
        /\ orderReq[r].pc = "done"
        /\ orderReq[r].response = 400
        /\ orderReq[r].order # 0
        /\ Len(orderReq[r].itemsWithPrices) = 2
        /\ orderReq[r].i = 2
        /\ orders = {}
        /\ orderItems = {}

\* C3: a request naming a product id that does not resolve to a product ends
\* in 400 and creates no order row and no item row, wherever the id stands in
\* the list.
C3_UnknownProductCreatesNothing ==
    \A r \in OrderReqs :
        LET q == orderReq[r] IN
        q.unresolved =>
            /\ q.response \in {0, 400, 401}
            /\ q.pc = "done" /\ isAuthenticated(q.user) => q.response = 400
            /\ q.order = 0
            /\ q.txOrders = {} /\ q.txItems = {}
            /\ OrderRowsOf(r) = {} /\ ItemRowsOf(r) = {}

\* C3 witness: the unknown product is the second line; the first was priced
C3_Witness ==
    \E r \in OrderReqs :
        /\ orderReq[r].pc = "done"
        /\ orderReq[r].response = 400
        /\ orderReq[r].unresolved
        /\ Len(orderReq[r].items) = 2
        /\ getProduct(orderReq[r].items[1].productId) # NoProduct
        /\ orderReq[r].total > 0
        /\ faults = 0
        /\ orders = {}

\* C4: the step that answers 201 leaves the cart of the ordering user empty,
\* the products that were not ordered included.
C4_CartEmptyAfterOrder ==
    [][\A r \in OrderReqs :
          (orderReq[r].response # 201 /\ orderReq'[r].response = 201)
          => {c \in cartItems' : c.userId = orderReq[r].user} = {}]_vars

\* C4 witness: alice ordered one product out of a cart holding all of them
C4_Witness ==
    \E r \in OrderReqs :
        /\ orderReq[r].response = 201
        /\ orderReq[r].user = "alice"
        /\ Len(orderReq[r].items) = 1
        /\ getCartItems("alice") = {}
        /\ getCartItems("sam") # {}

\* some line asks for more than the stock of its product
OverStock(q) ==
    \E k \in DOMAIN q.items :
        /\ getProduct(q.items[k].productId) # NoProduct
        /\ q.items[k].quantity > getProduct(q.items[k].productId).stock

\* C5: a checkout asking for more than the stock of a product is rejected and
\* creates no order (stated for a request with an address, in a run where no
\* statement of the store fails).
C5_InsufficientStockRejected ==
    \A r \in OrderReqs :
        LET q == orderReq[r] IN
        (q.pc = "done" /\ OverStock(q) /\ q.shippingAddress # "" /\ faults = 0)
        => q.response # 201 /\ OrderRowsOf(r) = {}

\* C6: an empty shipping address or an empty item list is rejected before any
\* mutation: the request is not answered 201 and no order row exists (stated
\* for a run where no statement of the store fails).
C6_EmptyInputRejected ==
    \A r \in OrderReqs :
        LET q == orderReq[r] IN
        (q.pc = "done" /\ (q.shippingAddress = "" \/ q.items = <<>>) /\ faults = 0)
        => q.response # 201 /\ OrderRowsOf(r) = {}

\* C7: a request answered with an error status has left no order row and no
\* item row behind, whichever statement of the handler failed (stated for a
\* request with an address, at least one line and no line over the stock).
C7_ErrorLeavesNoOrder ==
    \A r \in OrderReqs :
        LET q == orderReq[r] IN
        (q.response = 400 /\ q.shippingAddress # "" /\ q.items # <<>>
            /\ ~OverStock(q))
        => OrderRowsOf(r) = {} /\ ItemRowsOf(r) = {}

\* C8: after adds for one (userId, productId) pair run one after another, the
\* cart holds exactly one row for the pair and its quantity is the sum of the
\* quantities added.
C8_SerialAddsSum ==
    \A key \in DOMAIN addLog :
        (addLog[key].serial /\ addLog[key].n > 0 /\ ~AddInFlight(key[1], key[2]))
        => /\ Cardinality(CartRows(key[1], key[2])) = 1
           /\ \A c \in CartRows(key[1], key[2]) : c.quantity = addLog[key].sum

\* C8 witness: two adds of one pair, run one after the other, were merged
C8_Witness ==
    \E key \in DOMAIN addLog :
        /\ addLog[key].serial
        /\ addLog[key].n = 2
        /\ addLog[key].sum = 3
        /\ ~AddInFlight(key[1], key[2])
        /\ \E c \in CartRows(key[1], key[2]) : c.quantity = 3

\* C9: the cart table holds at most one row for a (userId, productId) pair.
C9_OneRowPerPair ==
    \A u \in Principals, pid \in ProductIds : Cardinality(CartRows(u, pid)) <= 1

\* C10: PUT /api/cart/:id with a quantity q <= 0 removes the item; with q > 0
\* it replaces the stored quantity by q.
C10_SetQuantity ==
    [][\A u \in Principals, id \in 1..MaxAddReq, q \in CartQtys :
          (UpdateCartItem(u, id, q) /\ \E c \in cartItems : c.id = id)
          => IF q <= 0
             THEN ~\E c \in cartItems' : c.id = id
             ELSE \A c \in cartItems' : c.id = id => c.quantity = q]_vars

\* C11: every row of the cart table has a quantity of at least 1: no add and
\* no quantity update ever stores zero or a negative quantity.
C11_QuantityPositive ==
    \A c \in cartItems : c.quantity >= 1

\* C12: a PUT or DELETE of an existing product by a seller who does not own
\* it is answered 403 and leaves the products table as it was; by the owning
\* seller or an admin it succeeds: the row carries the new values, or is gone.
C12_ProductEditOwnerOrAdmin ==
    [][\A u \in Accounts, id \in ProductIds :
          (reply'.user = u /\ getProduct(id) # NoProduct
              /\ Role[u] \in {"seller", "admin"})
          => LET owns == Role[u] = "admin" \/ getProduct(id).sellerId = u IN
             /\ \A data \in ProductPatches :
                   PutProductById(u, id, data)
                   => IF owns
                      THEN /\ reply'.status = 200
                           /\ \E p \in products' :
                                 /\ p.id = id
                                 /\ \A f \in DOMAIN data : p[f] = data[f]
                      ELSE reply'.status = 403 /\ products' = products
             /\ DeleteProductById(u, id)
                   => IF owns
                      THEN /\ reply'.status = 204
                           /\ ~\E p \in products' : p.id = id
                      ELSE reply'.status = 403 /\ products' = products]_vars

\* C12 witness: the seller sue was refused the edit of a product of sam
C12_Witness ==
    /\ reply = Answer("PUT /api/products/:id", "sue", 403)
    /\ \E p \in products : p.sellerId = "sam"
    /\ ~\E p \in products : p.sellerId = "sue"

\* the step answers 401 and changes no table
Denied401 == reply'.status = 401 /\ UNCHANGED dbVars

\* C13: a request without a session to a route that changes products, the
\* cart, orders, projects, milestones or progress images is answered 401, not
\* the 403 of a role check, and changes no table; GET /api/products answers
\* such a caller with 200.
C13_AnonymousDenied ==
    [][/\ reply'.user = NoUser =>
          /\ \A body \in ProductBodies :
                CreateProduct(NoUser, body) => Denied401
          /\ \A id \in ProductIds, data \in ProductPatches :
                PutProductById(NoUser, id, data) => Denied401
          /\ \A id \in ProductIds : DeleteProductById(NoUser, id) => Denied401
          /\ \A body \in ProjectBodies :
                CreateProject(NoUser, body) => Denied401
          /\ \A projectId \in ProjectIds, body \in MilestoneBodies :
                CreateMilestone(NoUser, projectId, body) => Denied401
          /\ \A projectId \in ProjectIds, hasFile \in BOOLEAN :
                CreateProgressImage(NoUser, projectId, hasFile) => Denied401
          /\ \A search \in Filters, category \in Filters :
                GetProducts(NoUser, search, category) => reply'.status = 200
       /\ reply' = reply =>
          /\ \A a \in DOMAIN addReq, pid \in ProductIds,
                hasQuantity \in BOOLEAN, quantity \in CartQtys :
                AddToCartSelect(a, NoUser, pid, hasQuantity, quantity)
                => UNCHANGED <<dbVars, addReq>>
          /\ \A id \in 1..MaxAddReq, quantity \in CartQtys :
                UpdateCartItem(NoUser, id, quantity) => UNCHANGED dbVars
          /\ \A id \in 1..MaxAddReq :
                RemoveFromCart(NoUser, id) => UNCHANGED dbVars
          /\ \A r \in OrderReqs, shippingAddress \in Addresses,
                items \in SeqsUpTo(OrderLines, 1) :
                OrderArrive(r, NoUser, shippingAddress, items)
                => /\ orderReq'[r].pc = "done"
                   /\ orderReq'[r].response = 401
                   /\ UNCHANGED dbVars]_vars

\* C13 witness: without a session a checkout and the deletion of a product
\* were refused while the store held the product and a cart row
C13_Witness ==
    /\ reply = Answer("DELETE /api/products/:id", NoUser, 401)
    /\ \E r \in OrderReqs :
          orderReq[r].response = 401 /\ orderReq[r].items # <<>>
    /\ products # {}
    /\ cartItems # {}
    /\ projects # {}

\* C14: the admin passes every role check: no route answers an admin with
\* the 403 of requireRole.
C14_AdminPassesRoleChecks ==
    (reply.user \in Accounts /\ Role[reply.user] = "admin")
    => reply.status # 403

\* C15: the creation of a milestone or a progress image under an existing
\* project by a client who is not the owner of the project (and no admin) is
\* answered 403 and creates no row (stated for a body with a title, and an
\* upload with a file).
C15_NonOwnerDenied ==
    [][\A u \in Accounts, projectId \in ProjectIds :
          (/\ reply'.user = u
           /\ Role[u] = "client"
           /\ getProject(projectId) # NoProject
           /\ getProject(projectId).clientId # u)
          => /\ \A body \in {b \in MilestoneBodies : ValidMilestone(b)} :
                   CreateMilestone(u, projectId, body)
                   => reply'.status = 403 /\ milestones' = milestones
             /\ CreateProgressImage(u, projectId, TRUE)
                   => reply'.status = 403 /\ progressImages' = progressImages]_vars

\* the parameters that are empty or white space only
BlankFilters == {f \in Filters : trim(f) = <<>>}

\* C16: whatever products were created, edited and deleted, the public
\* listing, with or without search and category, holds active products only.
C16_ListingOnlyActive ==
    \A search \in Filters, category \in Filters :
        \A k \in DOMAIN ProductListing(search, category) :
            ProductListing(search, category)[k].isActive = TRUE

\* C16 witness: the catalog was listed while it held an active product and
\* one that a PUT has deactivated
C16_Witness ==
    /\ reply.op = "GET /api/products"
    /\ \E p \in products : p.isActive = FALSE /\ p.createdAt = 1
    /\ Len(ProductListing(<<>>, <<>>)) = 1

\* C17: a search whose query is empty or white space only and whose category
\* is empty returns the same products, in the same order, as the listing of
\* all active products.
C17_BlankSearchIsListAll ==
    \A search \in BlankFilters, category \in BlankFilters :
        /\ searchProducts(search, category) = getAllProducts
        /\ ProductListing(search, category) = getAllProducts

\* C17 witness: the catalog was listed while it held two active products,
\* the later one first in the listing
C17_Witness ==
    /\ reply.op = "GET /api/products"
    /\ Len(getAllProducts) = 2
    /\ getAllProducts[1].createdAt > getAllProducts[2].createdAt
    /\ searchProducts(<<" ">>, <<>>) = getAllProducts

\* C19: the rows of an order are a snapshot: once an order and its items are
\* stored, no step (a price update or the deletion of a product, the clearing
\* of a cart, a further order) changes the price or the quantity of an item
\* or the total of the order.
C19_OrderItemsAreSnapshots ==
    [][/\ \A it \in orderItems : \E n \in orderItems' :
             /\ n.id = it.id
             /\ n.orderId = it.orderId
             /\ n.productId = it.productId
             /\ n.price = it.price
             /\ n.quantity = it.quantity
       /\ \A o \in orders : \E n \in orders' :
             n.id = o.id /\ n.total = o.total]_vars

\* C19 witness: two orders are stored; the product of one item has been
\* deleted since, the product of another carries a new price, the cart of
\* alice is cleared
C19_Witness ==
    /\ Cardinality(orders) = 2
    /\ \A r \in OrderReqs : orderReq[r].response = 201
    /\ \E it \in orderItems : getProduct(it.productId) = NoProduct
    /\ \E it \in orderItems :
          /\ getProduct(it.productId) # NoProduct
          /\ getProduct(it.productId).price # it.price
    /\ \A o \in orders :
          \E it \in orderItems :
              it.orderId = o.id /\ o.total = it.price * it.quantity
    /\ getCartItems("alice") = {}

\* the quantity a request asks of a product, over all its lines
QuantityAsked(items, pid) ==
    SumSeq([k \in DOMAIN items |->
               IF items[k].productId = pid THEN items[k].quantity ELSE 0])

\* C20: the lines of an order that name the same product are merged before
\* pricing: the stored order has exactly one item for each product asked,
\* and its quantity is the sum of the quantities of the product's lines.
C20_LinesMergedByProduct ==
    \A r \in OrderReqs :
        LET q == orderReq[r] IN
        (q.response = 201 /\ OrderRowsOf(r) # {})
        => \A k \in DOMAIN q.items :
              LET pid  == q.items[k].productId
                  rows == {it \in ItemRowsOf(r) : it.productId = pid}
              IN /\ Cardinality(rows) = 1
                 /\ \A it \in rows : it.quantity = QuantityAsked(q.items, pid)

\* the milestones the dashboard computes from
Listed == IF milestonesData.loaded THEN milestonesData.data ELSE <<>>

CompletedOf(list) ==
    Cardinality({k \in DOMAIN list : list[k].status = "completed"})

\* round(100 * c / n) in exact arithmetic, a half going up
RoundedPercent(c, n) == (200 * c + n) \div (2 * n)

\* C18: the completion percentage of a list of milestones is 0 for the empty
\* list, 100 when every milestone is completed, and round(100 * completed /
\* total) otherwise; it is an integer in 0..100.
C18_CompletionPercentage ==
    \A projectId \in ProjectIds :
        LET n == Len(Listed)
            c == CompletedOf(Listed)
            v == getProjectProgress(projectId)
        IN /\ v \in 0..100
           /\ n = 0 => v = 0
           /\ (n > 0 /\ c = n) => v = 100
           /\ (n > 0 /\ c < n) => v = RoundedPercent(c, n)

\* sum of the quantities of a set of rows
RECURSIVE SumQuantity(_)
SumQuantity(rows) ==
    IF rows = {} THEN 0
    ELSE LET row == CHOOSE x \in rows : TRUE
         IN row.quantity + SumQuantity(rows \ {row})

\* the quantity of a product over all stored order items
Ordered(pid) == SumQuantity({it \in orderItems : it.productId = pid})

\* the product of the line a request is at
LineProduct(r) == getProduct(orderReq[r].items[orderReq[r].i].productId)

\* C21: order creation neither checks nor decrements the stock: no step of
\* a checkout changes the stock of a product, and a checkout is refused only
\* when the product of a line does not exist, so that two checkouts handled
\* at the same time, which together ask for more than the stock of a
\* product, both succeed.
C21_CheckoutIgnoresStock ==
    [][/\ \A p \in products : \A n \in products' :
             n.id = p.id => n.stock = p.stock
       /\ \A r \in OrderReqs :
             (orderReq[r].pc # "done" /\ orderReq'[r].pc = "done"
                 /\ orderReq'[r].response # 201)
             => /\ orderReq[r].pc \in {"loop", "snap"}
                /\ LineProduct(r) = NoProduct]_vars

\* C21 witness: two checkouts of the same product are both committed and
\* neither has answered yet; each asked for no more than the stock, and the
\* quantity ordered is more than the stock
C21_Witness ==
    \E pid \in ProductIds :
        /\ getProduct(pid) # NoProduct
        /\ \A r \in OrderReqs :
              /\ orderReq[r].pc = "clear"
              /\ \A k \in DOMAIN orderReq[r].items :
                    /\ orderReq[r].items[k].productId = pid
                    /\ orderReq[r].items[k].quantity <= getProduct(pid).stock
        /\ Cardinality(orders) = Cardinality(OrderReqs)
        /\ Ordered(pid) > getProduct(pid).stock

\* sum of quantity * price over a set of order items
RECURSIVE ItemsTotal(_)
ItemsTotal(rows) ==
    IF rows = {} THEN 0
    ELSE LET row == CHOOSE x \in rows : TRUE
         IN row.quantity * row.price + ItemsTotal(rows \ {row})

\* C22: the total of every stored order is the sum over its own items of
\* quantity * the price stored with the item, also when the seller updates a
\* price while the order is being placed.
C22_TotalIsSumOfItems ==
    \A o \in orders :
        o.total = ItemsTotal({it \in orderItems : it.orderId = o.id})

\* C23: adds to an existing row of a (userId, productId) pair lose no update:
\* once no add of the pair is in flight, the quantity of the row is the sum
\* of the quantity it held and the quantities added, also when the adds ran
\* at the same time (stated for the pairs that hold one row).
C23_ConcurrentAddsSum ==
    \A key \in DOMAIN addLog :
        (/\ Cardinality(CartRows(key[1], key[2])) = 1
         /\ addLog[key].n > 0
         /\ ~AddInFlight(key[1], key[2]))
        => \A c \in CartRows(key[1], key[2]) : c.quantity = addLog[key].sum

\* the step inserts, changes and deletes cart rows of the user u only
OwnRowsOnly(u) ==
    \A c \in (cartItems' \ cartItems) \cup (cartItems \ cartItems') :
        c.userId = u

\* C24: no request of a principal inserts, changes the quantity of, or
\* deletes a cart row of another user: the row an add writes belongs to the
\* caller, and PUT and DELETE /api/cart/:id touch the caller's rows only.
C24_CartIsolation ==
    [][/\ \A a \in DOMAIN addReq :
             AddToCartWrite(a) => OwnRowsOnly(addReq[a].user)
       /\ \A u \in Principals, id \in 1..MaxAddReq :
             /\ \A quantity \in CartQtys :
                   UpdateCartItem(u, id, quantity) => OwnRowsOnly(u)
             /\ RemoveFromCart(u, id) => OwnRowsOnly(u)]_vars

\* the moves of the order lifecycle: forward one stage, or to cancelled from
\* a stage that is not terminal
Lifecycle ==
    {<<"pending", "confirmed">>, <<"confirmed", "shipped">>,
     <<"shipped", "delivered">>}
    \cup {<<s, "cancelled">> : s \in {"pending", "confirmed", "shipped"}}

\* C25: an order is stored as pending, and every change of the status of a
\* stored order is a move of the lifecycle: never backward, never out of
\* delivered or cancelled.
C25_StatusLifecycle ==
    [][/\ \A n \in orders' :
             (~\E o \in orders : o.id = n.id) => n.status = "pending"
       /\ \A o \in orders : \A n \in orders' :
             (n.id = o.id /\ n.status # o.status)
             => <<o.status, n.status>> \in Lifecycle]_vars

\* C26: a milestone carries a completedAt if and only if its status is
\* completed, whatever status and completedAt the caller sent.
C26_CompletedAtIffCompleted ==
    \A m \in milestones :
        (m.completedAt # NullStamp) <=> (m.status = "completed")

\* C27: a checkout that comes to a line whose product no longer exists, be
\* it at the pricing of the line or, the product deleted in between, at the
\* copying of its price, answers 400 in that step; it has created no order
\* and the step leaves the carts, the orders and the order items as they
\* were.
C27_DanglingLineHandled ==
    [][\A r \in OrderReqs :
          (/\ orderReq[r].pc \in {"loop", "snap"}
           /\ orderReq'[r] # orderReq[r]
           /\ LineProduct(r) = NoProduct)
          => /\ orderReq'[r].pc = "done"
             /\ orderReq'[r].response = 400
             /\ orderReq'[r].order = 0
             /\ orderReq'[r].txOrders = {} /\ orderReq'[r].txItems = {}
             /\ UNCHANGED <<cartItems, orders, orderItems>>]_vars

\* C27 witness: the product of alice's order was deleted after its price was
\* added to the total and before it was copied: the request answered 400,
\* her cart is as it was and no order is stored
C27_Witness ==
    \E r \in OrderReqs :
        /\ orderReq[r].pc = "done"
        /\ orderReq[r].response = 400
        /\ orderReq[r].user = "alice"
        /\ orderReq[r].total > 0
        /\ getProduct(orderReq[r].items[1].productId) = NoProduct
        /\ getCartItems("alice") = {c \in FilledCarts : c.userId = "alice"}
        /\ orders = {}

\* C28: no PUT /api/products/:id, whatever fields its body names, changes
\* the id or the createdAt of a stored product: after the request the
\* product is stored under the same id with the same createdAt.
C28_IdAndCreatedAtImmutable ==
    [][\A u \in FieldCallers, id \in ProductIds \cup {ForgedId},
          data \in FieldPatches :
          PutProductById(u, id, data)
          => \A p \in products : \E n \in products' :
                n.id = p.id /\ n.createdAt = p.createdAt]_vars

\* C29: the sellerId of a product is the principal who created it: POST
\* /api/products stores the caller as sellerId whatever the body names, and
\* no PUT /api/products/:id changes the sellerId of a stored product.
C29_SellerIsCreator ==
    [][/\ \A u \in FieldCallers, body \in ForgedBodies :
             CreateProduct(u, body)
             => \A n \in products' \ products : n.sellerId = u
       /\ \A u \in FieldCallers, id \in ProductIds \cup {ForgedId},
             data \in FieldPatches :
             PutProductById(u, id, data)
             => \A p \in products : \A n \in products' :
                   n.id = p.id => n.sellerId = p.sellerId]_vars

\* the percentage of the milestones of one project, rounded as the
\* dashboard rounds
OwnProgress(projectId) ==
    LET own == getMilestonesByProject(projectId) IN
    IF Len(own) = 0 THEN 0
    ELSE MathRound(Times(Divide(CompletedOf(own), Len(own)), 100))

\* C30: every project of the list displays the percentage of its own
\* milestones, whichever project is selected (stated for a dashboard whose
\* milestones query has data).
C30_ProgressPerProject ==
    milestonesData.loaded =>
        \A projectId \in ProjectIds :
            getProject(projectId) # NoProject
            => getProjectProgress(projectId) = OwnProgress(projectId)

====
